---- MODULE Spec2Model ----
(***************************************************************************)
(* The BD-700 technical digest pipeline: main.py drives one run per process *)
(* invocation (weekday guard, configuration check, fetch and filter, digest *)
(* generation, e-mail delivery, history save); rss_fetcher.py holds the     *)
(* filter and the history file, llm_processor.py the summarization call    *)
(* with its retry loop.  A Python str is a sequence of                      *)
(* one-character strings; None and a missing key are the two reserved       *)
(* values below, which no text can equal.                                   *)
(***************************************************************************)
EXTENDS Integers, Sequences, FiniteSets, TLC

\* ---------------------------------------------------------------- bounds
\* entries one feed serves in one fetch
MaxEntries == 2
\* longest list handed to save_history on its own
MaxSaveLen == 1500

\* runs of main() one after another
MaxRuns == 2

\* ---------------------------------------------------------------- strings
None == <<"<None>">>
Absent == <<"<absent>">>
Empty == << >>

UPPER == <<"A","B","C","D","E","F","G","H","I","J","K","L","M","N","O","P","Q","R","S","T","U","V","W","X","Y","Z">>
LOWER == <<"a","b","c","d","e","f","g","h","i","j","k","l","m","n","o","p","q","r","s","t","u","v","w","x","y","z">>

\* str.lower(), one character
LowerChar(c) ==
    IF \E i \in 1..Len(UPPER) : UPPER[i] = c
    THEN LOWER[CHOOSE i \in 1..Len(UPPER) : UPPER[i] = c]
    ELSE c

\* str.lower()
Lower(s) == [i \in 1..Len(s) |-> LowerChar(s[i])]

\* Python's `sub in s` on two str
Contains(sub, s) ==
    \E i \in 0..(Len(s) - Len(sub)) : SubSeq(s, i + 1, i + Len(sub)) = sub

\* Python's `x in lst` on a list
InList(x, lst) == \E i \in 1..Len(lst) : lst[i] = x

\* any(k in s for k in keywords)
AnyIn(keywords, s) == \E i \in 1..Len(keywords) : Contains(keywords[i], s)

\* Python truthiness of an optional str: None and '' are falsy
Truthy(s) == s # None /\ s # Absent /\ s # Empty

\* dict.get(key, default): the default only when the key is missing
Get(value, default) == IF value = Absent THEN default ELSE value

\* lst[:n], the oldest entries kept
FirstN(lst, n) ==
    IF Len(lst) <= n THEN lst ELSE SubSeq(lst, 1, n)

\* lst[-n:]
LastN(lst, n) ==
    IF Len(lst) <= n THEN lst ELSE SubSeq(lst, Len(lst) - n + 1, Len(lst))

\* ---------------------------------------------------------------- configuration
\* sent_ids[-1000:]
HISTORY_CAP == 1000

\* CUTOFF_DATE = datetime(2026, 2, 15), in seconds since 2026-01-01 00:00:
\* 45 days of 86400 seconds
CUTOFF_DATE == 3888000

\* one hour, the shift of a daylight-saving zone
DST_HOUR == 3600

BD700_KEYWORDS ==
    << <<"e","-","1","1">>,
       <<"e","-","1","1","a">>,
       <<"e","1","1","a">>,
       <<"b","a","c","n">>,
       <<"b","a","t","t","l","e","f","i","e","l","d"," ","a","i","r","b","o","r","n","e"," ","c","o","m","m","u","n","i","c","a","t","i","o","n","s"," ","n","o","d","e">>,
       <<"4","3","0","t","h"," ","e","x","p","e","d","i","t","i","o","n","a","r","y">>,
       <<"4","3","0"," ","e","e","c","s">>,
       <<"4","7","2"," ","e","c","s">>,
       <<"4","7","2","n","d"," ","e","c","s">>,
       <<"3","1","9","t","h"," ","r","e","c","o","n","n","a","i","s","s","a","n","c","e">>,
       <<"3","1","9"," ","r","w">>,
       <<"g","r","a","n","d"," ","f","o","r","k","s"," ","a","f","b">>,
       <<"g","r","a","n","d"," ","f","o","r","k","s">>,
       <<"h","a","n","s","c","o","m"," ","a","f","b">>,
       <<"b","d","-","7","0","0">>,
       <<"b","d","7","0","0">>,
       <<"g","l","o","b","a","l"," ","e","x","p","r","e","s","s">>,
       <<"g","l","o","b","a","l"," ","6","0","0","0">>,
       <<"a","i","r","w","o","r","t","h","i","n","e","s","s">>,
       <<"d","i","r","e","c","t","i","v","e">>,
       <<"a","d">>,
       <<"s","e","r","v","i","c","e"," ","b","u","l","l","e","t","i","n">>,
       <<"s","b">>,
       <<"m","a","i","n","t","e","n","a","n","c","e">>,
       <<"s","a","f","e","t","y">>,
       <<"i","n","c","i","d","e","n","t">>,
       <<"f","a","a">>,
       <<"e","a","s","a">>,
       <<"t","r","a","n","s","p","o","r","t"," ","c","a","n","a","d","a">>,
       <<"n","o","r","t","h","r","o","p"," ","g","r","u","m","m","a","n">>,
       <<"c","a","e"," ","i","n","c">>,
       <<"f","l","i","g","h","t"," ","t","r","a","i","n","i","n","g">>,
       <<"s","i","m","u","l","a","t","o","r">> >>

EXCLUDE_KEYWORDS ==
    << <<"7","5","0","0">>,
       <<"8","0","0","0">>,
       <<"o","r","d","e","r">>,
       <<"d","e","l","i","v","e","r","y">>,
       <<"s","t","o","c","k">>,
       <<"q","u","a","r","t","e","r","l","y">> >>

PRIMARY_SOURCES ==
    << <<"t","c",".","g","c",".","c","a">>,
       <<"d","v","i","d","s","h","u","b">>,
       <<"a","f",".","m","i","l">>,
       <<"d","e","f","e","n","s","e",".","g","o","v">> >>

\* RSS_FEEDS, in configured order: a primary (af.mil) and a secondary source
RSS_FEEDS ==
    << <<"a","f",".","m","i","l","/","r","s","s">>,
       <<"c","a","e",".","c","o","m","/","r","s","s">> >>

\* required_vars of main()
REQUIRED_VARS == {"GEMINI_API_KEY", "EMAIL_PASSWORD", "EMAIL_SENDER", "EMAIL_RECIPIENT"}

\* ---------------------------------------------------------------- history file
\* sent_history.json on disk: absent, holding a JSON list, or holding text
\* that json.load rejects
FileMissing == [kind |-> "missing", ids |-> << >>]
FileCorrupt == [kind |-> "corrupt", ids |-> << >>]
FileList(ids) == [kind |-> "list", ids |-> ids]

\* the file exists and cannot be opened for reading
FileUnreadable == [kind |-> "unreadable", ids |-> << >>]

Digit(d) == ToString(d)

\* the id of the i-th article of an earlier run: "h0001", "h0002", ...
OldId(i) ==
    << "h", Digit((i \div 1000) % 10), Digit((i \div 100) % 10),
       Digit((i \div 10) % 10), Digit(i % 10) >>

\* a ledger written by earlier runs, oldest id first
OldLedger(n) == [i \in 1..n |-> OldId(i)]

\* what `with open(HISTORY_FILE, 'r') as f: return json.load(f)` raises
LoadError(f) ==
    CASE f.kind = "unreadable" -> "PermissionError"
      [] f.kind = "corrupt" -> "JSONDecodeError"
      [] OTHER -> "none"

\* a handler for json's error alone
Caught_DecodeOnly(err) == err = "JSONDecodeError"

\* `except Exception`: both errors are subclasses of Exception
Caught(err) == err \in {"JSONDecodeError", "PermissionError"}

\* load_history(): the value returned
load_history(f) ==
    IF f.kind = "missing" THEN << >>
    ELSE IF LoadError(f) # "none" THEN << >>
    ELSE f.ids

\* save_history(sent_ids): io is what the file system does to open() and
\* json.dump(): "ok"; "open_fails" (the file is left as it was); "write_fails"
\* (open(..., 'w') has truncated the file and the dump stops part-way).
\* Either failure is logged and swallowed.
save_history(f, sent_ids, io) ==
    LET trimmed_ids == LastN(sent_ids, HISTORY_CAP)
    IN  CASE io = "ok" -> FileList(trimmed_ids)
          [] io = "open_fails" -> f
          [] io = "write_fails" -> FileCorrupt

SaveIo == {"ok", "open_fails", "write_fails"}

\* ---------------------------------------------------------------- feed entries
NoDate == [kind |-> "absent", t |-> 0]
NoneDate == [kind |-> "none", t |-> 0]
BadDate == [kind |-> "out_of_range", t |-> 0]
At(t) == [kind |-> "time", t |-> t]

Entry(id, link, title, summary, pp) ==
    [id |-> id, link |-> link, title |-> title, summary |-> summary,
     published_parsed |-> pp]

T_AD == <<"A","D"," ","o","n","e">>
T_BACN == <<"B","A","C","N">>
T_CF == <<"C","F","-","1"," ","s","b">>
T_ORDER == <<"A","D"," ","o","r","d","e","r">>
T_PLAIN == <<"x">>
S_FAA == <<"f","a","a"," ","n","o","t","e">>
L1 == <<"l","1">>
L2 == <<"l","2">>

\* what the feeds can serve
E_native == Entry(<<"A">>, L1, T_AD, Empty, At(CUTOFF_DATE + 1))
E_link == Entry(Absent, L2, T_CF, S_FAA, NoDate)
E_title == Entry(Absent, Absent, T_BACN, Absent, NoneDate)
E_nothing == Entry(Absent, Absent, Absent, S_FAA, NoDate)
E_emptyid == Entry(Empty, L2, T_AD, Empty, At(CUTOFF_DATE))
E_old == Entry(OldId(1), L1, T_AD, Empty, At(CUTOFF_DATE + 1))
E_old_changed == Entry(OldId(2), L2, T_BACN, S_FAA, NoDate)
E_excluded == Entry(<<"B">>, L1, T_ORDER, Empty, NoDate)
E_stale == Entry(<<"C">>, L1, T_AD, Empty, At(CUTOFF_DATE - 1))
E_baddate == Entry(<<"D">>, L1, T_AD, Empty, BadDate)
E_plain == Entry(<<"E">>, L1, T_PLAIN, Empty, NoDate)

E_atcutoff == Entry(<<"F">>, L1, T_AD, Empty, At(CUTOFF_DATE))

\* the entries a feed may serve to a run of the whole pipeline, in feed order
PipelineCatalogue == << E_native, E_old, E_nothing >>

\* the entries a feed may serve to the filter alone, in feed order
FilterCatalogue ==
    << E_plain, E_native, E_link, E_old, E_title, E_nothing, E_old_changed >>

\* the entries a feed may serve to the date and keyword steps, in feed order
RelevanceCatalogue ==
    << E_native, E_stale, E_atcutoff, E_excluded, E_baddate, E_plain, E_link >>

\* the entries of catalogue at the indices I, in catalogue order
Pick(catalogue, I) ==
    LET F[k \in 0..Len(catalogue)] ==
            IF k = 0 THEN << >>
            ELSE IF k \in I THEN Append(F[k - 1], catalogue[k]) ELSE F[k - 1]
    IN  F[Len(catalogue)]

\* feedparser.parse(feed_url): raises, or yields the entries served, which are
\* at most MaxEntries entries of the catalogue
FeedResults(catalogue) ==
    { [raises |-> TRUE, entries |-> << >>] }
    \cup { [raises |-> FALSE, entries |-> Pick(catalogue, I)] :
             I \in { J \in SUBSET (1..Len(catalogue)) : Cardinality(J) <= MaxEntries } }

\* ---------------------------------------------------------------- the filter
\* the process's time zone: seconds of daylight saving in force around the
\* cutoff date (0 on standard time)
VARIABLE dst

\* 1. IDENTIFY UNIQUE ID
unique_id_of(entry) == Get(entry.id, Get(entry.link, Get(entry.title, None)))

\* 3. DATE CHECK: time.mktime raises on a struct_time out of its range
DateRaises(entry) == entry.published_parsed.kind = "out_of_range"

\* datetime.fromtimestamp(time.mktime(t)).  feedparser gives t with
\* tm_isdst = 0, so mktime reads it as local standard time and fromtimestamp
\* answers in local time: the wall-clock second of t, moved forward by the
\* daylight saving in force
published_dt(pp) == pp.t + dst

\* `if published_dt < CUTOFF_DATE: continue`, entered only for an entry that
\* has a published_parsed which is not None
TooOld(entry) ==
    /\ entry.published_parsed.kind = "time"
    /\ published_dt(entry.published_parsed) < CUTOFF_DATE

content_text_of(entry) ==
    Lower(Get(entry.title, Empty) \o <<" ">> \o Get(entry.summary, Empty))

is_primary_of(entry, feed_url) ==
    \/ AnyIn(PRIMARY_SOURCES, feed_url)
    \/ Contains(<<"C","F","-">>, Get(entry.title, Empty))

Article(entry, feed_url) ==
    [title |-> Get(entry.title, Empty),
     link |-> Get(entry.link, <<"#">>),
     summary |-> Get(entry.summary, Empty),
     is_primary |-> is_primary_of(entry, feed_url),
     id |-> unique_id_of(entry)]

\* the loop body without step 2, the duplicate check
EntryOutcome_NoDuplicateCheck(entry, sent_ids) ==
    IF DateRaises(entry) THEN "raise"
    ELSE IF TooOld(entry) THEN "skip"
    ELSE IF AnyIn(EXCLUDE_KEYWORDS, content_text_of(entry)) THEN "skip"
    ELSE IF AnyIn(BD700_KEYWORDS, content_text_of(entry)) THEN "accept"
    ELSE "skip"

\* the loop body with step 5 before step 4: an inclusion keyword accepts
EntryOutcome_InclusionFirst(entry, sent_ids) ==
    IF InList(unique_id_of(entry), sent_ids) THEN "skip"
    ELSE IF DateRaises(entry) THEN "raise"
    ELSE IF TooOld(entry) THEN "skip"
    ELSE IF AnyIn(BD700_KEYWORDS, content_text_of(entry)) THEN "accept"
    ELSE "skip"

\* one pass of the loop body over an entry: "skip" (continue, or no keyword),
\* "accept" (appended), "raise" (an exception leaves the feed's loop)
EntryOutcome(entry, sent_ids) ==
    IF InList(unique_id_of(entry), sent_ids) THEN "skip"
    ELSE IF DateRaises(entry) THEN "raise"
    ELSE IF TooOld(entry) THEN "skip"
    ELSE IF AnyIn(EXCLUDE_KEYWORDS, content_text_of(entry)) THEN "skip"
    ELSE IF AnyIn(BD700_KEYWORDS, content_text_of(entry)) THEN "accept"
    ELSE "skip"

\* the entry loop putting the articles of primary sources in front
RECURSIVE ProcessEntries_PrimaryFirst(_, _, _, _)
ProcessEntries_PrimaryFirst(entries, feed_url, sent_ids, acc) ==
    IF entries = << >> THEN acc
    ELSE LET entry == Head(entries)
             outcome == EntryOutcome(entry, sent_ids)
         IN  CASE outcome = "raise" -> acc
               [] outcome = "accept" ->
                    ProcessEntries_PrimaryFirst(Tail(entries), feed_url, sent_ids,
                        IF is_primary_of(entry, feed_url)
                        THEN [articles |-> << Article(entry, feed_url) >> \o acc.articles,
                              new_ids |-> << unique_id_of(entry) >> \o acc.new_ids]
                        ELSE [articles |-> Append(acc.articles, Article(entry, feed_url)),
                              new_ids |-> Append(acc.new_ids, unique_id_of(entry))])
               [] OTHER ->
                    ProcessEntries_PrimaryFirst(Tail(entries), feed_url, sent_ids, acc)

\* the entry loop of one feed; acc is (articles, new_ids_found) so far.  An
\* exception ends the feed's loop and keeps what was appended before it.
RECURSIVE ProcessEntries(_, _, _, _)
ProcessEntries(entries, feed_url, sent_ids, acc) ==
    IF entries = << >> THEN acc
    ELSE LET entry == Head(entries)
             outcome == EntryOutcome(entry, sent_ids)
         IN  CASE outcome = "raise" -> acc
               [] outcome = "accept" ->
                    ProcessEntries(Tail(entries), feed_url, sent_ids,
                        [articles |-> Append(acc.articles, Article(entry, feed_url)),
                         new_ids |-> Append(acc.new_ids, unique_id_of(entry))])
               [] OTHER -> ProcessEntries(Tail(entries), feed_url, sent_ids, acc)

\* a feed whose loop raised anywhere adds nothing
ProcessFeed_AllOrNothing(result, feed_url, sent_ids, acc) ==
    IF result.raises THEN acc
    ELSE IF \E k \in 1..Len(result.entries) :
                EntryOutcome(result.entries[k], sent_ids) = "raise"
         THEN acc
    ELSE ProcessEntries(result.entries, feed_url, sent_ids, acc)

\* one iteration of `for feed_url in RSS_FEEDS`
ProcessFeed(result, feed_url, sent_ids, acc) ==
    IF result.raises THEN acc
    ELSE ProcessEntries(result.entries, feed_url, sent_ids, acc)

\* ---------------------------------------------------------------- collaborators
D_OK == <<"d","i","g","e","s","t"," ","o","k">>
D_ERR == <<"N","o"," ","E","r","r","o","r","s">>

\* generate_digest(articles): raises, or returns None, '' or a text
DigestResults ==
    { [raises |-> TRUE, text |-> None] }
    \cup { [raises |-> FALSE, text |-> t] : t \in {None, Empty, D_OK, D_ERR} }

\* os.getenv(var) for a required variable: unset (None), set to '', set to a value
EnvValues == {None, Empty, <<"v">>}

\* required_vars without EMAIL_RECIPIENT
missing_of_no_recipient(e) ==
    { var \in REQUIRED_VARS \ {"EMAIL_RECIPIENT"} : ~Truthy(e[var]) }

\* main() line 60
missing_of(e) == { var \in REQUIRED_VARS : ~Truthy(e[var]) }

\* before any process runs: no environment, command line or clock yet
NoEnv == [var \in REQUIRED_VARS |-> Absent]
NoArgs == [dry_run |-> FALSE, force |-> FALSE]
NoDay == -1

\* the days a run starts on: Friday and the two weekend days, either side of
\* the guard's boundary (Monday to Thursday fare as Friday does)
Days == {4, 5, 6}

\* ---------------------------------------------------------------- state
VARIABLES
    file,            \* sent_history.json
    pc,              \* position of the running process in main()
    args,            \* parsed command line
    env,             \* os.environ of the process (after load_dotenv), required_vars only
    today,           \* the weekday the process runs on: datetime.today().weekday()
    sent_ids,        \* fetch_and_filter_articles: the loaded history (old_history)
    articles,        \* fetch_and_filter_articles: accepted articles
    new_ids,         \* fetch_and_filter_articles: new_ids_found
    feedIdx,         \* index into RSS_FEEDS of the next feed to fetch
    digest_content,  \* result of generate_digest
    success,         \* result of send_email: "none" before the call
    saveIo,          \* what the file system did to this run's save: "none" before it
    exit_code,       \* process exit status, -1 while running
    trace,           \* calls made by the run, in order
    served,          \* what feedparser.parse returned for each feed fetched so far
    fileAtStart,     \* sent_history.json when the run started
    past,            \* what earlier runs (or an earlier call of the filter) left behind
    llm              \* the running call of LLMProcessor.generate_digest_from_articles

vars ==
    << file, pc, args, env, today, sent_ids, articles, new_ids, feedIdx,
       digest_content, success, saveIo, exit_code, trace, served, fileAtStart,
       past, llm, dst >>

\* (runs of main(), of the filter alone and of save_history alone start with
\* the local clock on standard time, dst = 0; the date and keyword steps are
\* run under both clocks)

\* no earlier run, no earlier call of the filter
NoPast ==
    [runs |-> 0, delivered |-> {}, articles |-> << >>, new_ids |-> << >>,
     sent_ids |-> << >>, served |-> << >>]

\* no call of generate_digest_from_articles under way
NoCall ==
    [state |-> "idle", n_articles |-> 0, attempt |-> 0, requests |-> 0,
     slept |-> 0, log |-> << >>, result |-> None]

InitialFiles ==
    { FileMissing, FileCorrupt, FileList(OldLedger(2)), FileList(OldLedger(HISTORY_CAP)) }

Init ==
    /\ file \in InitialFiles
    /\ pc = "idle"
    /\ args = NoArgs
    /\ env = NoEnv
    /\ today = NoDay
    /\ sent_ids = << >>
    /\ articles = << >>
    /\ new_ids = << >>
    /\ feedIdx = 1
    /\ digest_content = None
    /\ success = "none"
    /\ saveIo = "none"
    /\ exit_code = -1
    /\ trace = << >>
    /\ served = << >>
    /\ fileAtStart = file
    /\ past = NoPast
    /\ llm = NoCall
    /\ dst = 0

\* sys.exit(code), or main() returning (code 0)
Exit(code) ==
    /\ pc' = "exited"
    /\ exit_code' = code

\* the process is invoked on some day with some environment: argparse,
\* load_dotenv
StartRun ==
    /\ pc = "idle"
    /\ \E d \in BOOLEAN, f \in BOOLEAN : args' = [dry_run |-> d, force |-> f]
    /\ pc' = "weekday"
    /\ env' \in [REQUIRED_VARS -> EnvValues]
    /\ today' \in Days
    /\ sent_ids' = << >>
    /\ articles' = << >>
    /\ new_ids' = << >>
    /\ feedIdx' = 1
    /\ digest_content' = None
    /\ success' = "none"
    /\ saveIo' = "none"
    /\ exit_code' = -1
    /\ trace' = << >>
    /\ served' = << >>
    /\ fileAtStart' = file
    /\ UNCHANGED << file, past, llm, dst >>

\* a guard that lets Saturday through
IsWeekend_SundayOnly(day) == day >= 6

\* 0=Monday, 4=Friday, 5=Saturday, 6=Sunday
IsWeekend(day) == day >= 5

\* 1. WEEKDAY CHECK
WeekdayCheck ==
    /\ pc = "weekday"
    /\ IF ~args.force /\ IsWeekend(today) THEN Exit(0)
       ELSE pc' = "env" /\ UNCHANGED exit_code
    /\ UNCHANGED << past, llm, dst, file, args, env, today, sent_ids, articles, new_ids, feedIdx,
                    digest_content, success, saveIo, trace, served, fileAtStart >>

\* 2. CHECK ENV VARS
EnvCheck ==
    /\ pc = "env"
    /\ IF missing_of(env) # {} THEN Exit(1)
       ELSE pc' = "load" /\ UNCHANGED exit_code
    /\ UNCHANGED << past, llm, dst, file, args, env, today, sent_ids, articles, new_ids, feedIdx,
                    digest_content, success, saveIo, trace, served, fileAtStart >>

\* a filter that starts from an empty history whatever the file holds
LoadHistory_Forgets ==
    /\ pc = "load"
    /\ sent_ids' = << >>
    /\ articles' = << >>
    /\ new_ids' = << >>
    /\ feedIdx' = 1
    /\ trace' = Append(trace, "load_history")
    /\ pc' = "feeds"
    /\ UNCHANGED << past, llm, dst, file, args, env, today, digest_content, success,
                    saveIo, exit_code, served, fileAtStart >>

\* fetch_and_filter_articles, lines 144-146
LoadHistory ==
    /\ pc = "load"
    /\ sent_ids' = load_history(file)
    /\ articles' = << >>
    /\ new_ids' = << >>
    /\ feedIdx' = 1
    /\ trace' = Append(trace, "load_history")
    /\ pc' = "feeds"
    /\ UNCHANGED << past, llm, dst, file, args, env, today, digest_content, success, saveIo,
                    exit_code, served, fileAtStart >>

\* an iteration that also writes the ids found so far to the history file
FetchFeedFrom_Commits(results) ==
    /\ pc = "feeds"
    /\ feedIdx <= Len(RSS_FEEDS)
    /\ \E result \in results :
         LET acc == ProcessFeed(result, RSS_FEEDS[feedIdx], sent_ids,
                                [articles |-> articles, new_ids |-> new_ids])
         IN  /\ articles' = acc.articles
             /\ new_ids' = acc.new_ids
             /\ served' = Append(served, result)
             /\ file' = save_history(file, sent_ids \o acc.new_ids, "ok")
    /\ feedIdx' = feedIdx + 1
    /\ trace' = Append(trace, "fetch")
    /\ UNCHANGED << past, llm, dst, pc, args, env, today, sent_ids, digest_content,
                    success, saveIo, exit_code, fileAtStart >>

\* fetch_and_filter_articles, one iteration of the loop over RSS_FEEDS
FetchFeedFrom(results) ==
    /\ pc = "feeds"
    /\ feedIdx <= Len(RSS_FEEDS)
    /\ \E result \in results :
         LET acc == ProcessFeed(result, RSS_FEEDS[feedIdx], sent_ids,
                                [articles |-> articles, new_ids |-> new_ids])
         IN  /\ articles' = acc.articles
             /\ new_ids' = acc.new_ids
             /\ served' = Append(served, result)
    /\ feedIdx' = feedIdx + 1
    /\ trace' = Append(trace, "fetch")
    /\ UNCHANGED << past, llm, dst, file, pc, args, env, today, sent_ids, digest_content,
                    success, saveIo, exit_code, fileAtStart >>

\* a run of main() fetches what the pipeline catalogue serves
FetchFeed == FetchFeedFrom(FeedResults(PipelineCatalogue))

\* main() going on to step 4 with an empty candidate list
CheckArticles_NoEmptyExit ==
    /\ pc = "feeds"
    /\ feedIdx > Len(RSS_FEEDS)
    /\ pc' = "digest"
    /\ UNCHANGED << past, llm, dst, file, args, env, today, sent_ids, articles, new_ids,
                    feedIdx, digest_content, success, saveIo, exit_code, trace, served,
                    fileAtStart >>

\* fetch_and_filter_articles returns; main() lines 75-80
CheckArticles ==
    /\ pc = "feeds"
    /\ feedIdx > Len(RSS_FEEDS)
    /\ IF articles = << >> THEN Exit(0)
       ELSE pc' = "digest" /\ UNCHANGED exit_code
    /\ UNCHANGED << past, llm, dst, file, args, env, today, sent_ids, articles, new_ids,
                    feedIdx, digest_content, success, saveIo, trace, served, fileAtStart >>

\* the test without `not digest_content`
DigestRejected_ErrorOnly(text) == Contains(<<"E","r","r","o","r">>, text)

\* `not digest_content or "Error" in digest_content`
DigestRejected(text) == ~Truthy(text) \/ Contains(<<"E","r","r","o","r">>, text)

\* 4. GENERATE DIGEST; an exception reaches the handler at line 125
GenerateDigest ==
    /\ pc = "digest"
    /\ trace' = Append(trace, "generate_digest")
    /\ \E r \in DigestResults :
         IF r.raises
         THEN /\ Exit(1)
              /\ UNCHANGED digest_content
         ELSE /\ digest_content' = r.text
              /\ IF DigestRejected(r.text) THEN Exit(1)
                 ELSE pc' = "deliver" /\ UNCHANGED exit_code
    /\ UNCHANGED << past, llm, dst, file, args, env, today, sent_ids, articles, new_ids,
                    feedIdx, success, saveIo, served, fileAtStart >>

\* step 5 entered whatever args.dry_run is
SendEmail_IgnoresDryRun ==
    /\ pc = "deliver"
    /\ \E ok \in {"true", "false"} : success' = ok
    /\ trace' = Append(trace, "send_email")
    /\ pc' = "save"
    /\ UNCHANGED << past, llm, dst, file, args, env, today, sent_ids, articles, new_ids,
                    feedIdx, digest_content, saveIo, exit_code, served, fileAtStart >>

\* 5. SEND EMAIL: send_email returns True or False and never raises
SendEmail ==
    /\ pc = "deliver"
    /\ ~args.dry_run
    /\ \E ok \in {"true", "false"} : success' = ok
    /\ trace' = Append(trace, "send_email")
    /\ pc' = "save"
    /\ UNCHANGED << past, llm, dst, file, args, env, today, sent_ids, articles, new_ids,
                    feedIdx, digest_content, saveIo, exit_code, served, fileAtStart >>

\* step 6 saving new_ids alone, old_history forgotten
SaveHistory_NewIdsOnly ==
    /\ pc = "save"
    /\ \E io \in SaveIo :
         /\ saveIo' = io
         /\ file' = save_history(file, new_ids, io)
    /\ trace' = Append(trace, "save_history")
    /\ Exit(0)
    /\ UNCHANGED << past, llm, dst, args, env, today, sent_ids, articles, new_ids, feedIdx,
                    digest_content, success, served, fileAtStart >>

\* 6. SAVE HISTORY, then main() returns
SaveHistory ==
    /\ pc = "save"
    /\ \E io \in SaveIo :
         /\ saveIo' = io
         /\ file' = save_history(file, sent_ids \o new_ids, io)
    /\ trace' = Append(trace, "save_history")
    /\ Exit(0)
    /\ UNCHANGED << past, llm, dst, args, env, today, sent_ids, articles, new_ids, feedIdx,
                    digest_content, success, served, fileAtStart >>

\* the dry-run branch, then main() returns
DryRunPreview ==
    /\ pc = "deliver"
    /\ args.dry_run
    /\ Exit(0)
    /\ UNCHANGED << past, llm, dst, file, args, env, today, sent_ids, articles, new_ids,
                    feedIdx, digest_content, success, saveIo, trace, served, fileAtStart >>

Next ==
    \/ StartRun
    \/ WeekdayCheck
    \/ EnvCheck
    \/ LoadHistory
    \/ FetchFeed
    \/ CheckArticles
    \/ GenerateDigest
    \/ SendEmail
    \/ SaveHistory
    \/ DryRunPreview

Spec == Init /\ [][Next]_vars

\* ---------------------------------------------------------------- the filter alone
\* fetch_and_filter_articles() called on its own, as under `__main__` of
\* rss_fetcher.py, against what the filter catalogue serves
FilterInit ==
    /\ file \in InitialFiles
    /\ pc = "load"
    /\ args = NoArgs
    /\ env = NoEnv
    /\ today = NoDay
    /\ sent_ids = << >>
    /\ articles = << >>
    /\ new_ids = << >>
    /\ feedIdx = 1
    /\ digest_content = None
    /\ success = "none"
    /\ saveIo = "none"
    /\ exit_code = -1
    /\ trace = << >>
    /\ served = << >>
    /\ fileAtStart = file
    /\ past = NoPast
    /\ llm = NoCall
    /\ dst = 0

FilterFetch == FetchFeedFrom(FeedResults(FilterCatalogue))

\* return articles, new_ids_found, sent_ids
FilterReturn ==
    /\ pc = "feeds"
    /\ feedIdx > Len(RSS_FEEDS)
    /\ pc' = "returned"
    /\ UNCHANGED << past, llm, dst, file, args, env, today, sent_ids, articles, new_ids, feedIdx,
                    digest_content, success, saveIo, exit_code, trace, served, fileAtStart >>

FilterNext ==
    \/ LoadHistory
    \/ FilterFetch
    \/ FilterReturn

SpecFilter == FilterInit /\ [][FilterNext]_vars

\* ---------------------------------------------------------------- date and keyword steps
\* fetch_and_filter_articles() against feeds that serve stale, undated,
\* wrongly dated, excluded and irrelevant entries; short histories only
RelevanceFiles == { FileMissing, FileList(OldLedger(2)) }

RelevanceInit ==
    /\ file \in RelevanceFiles
    /\ pc = "load"
    /\ args = NoArgs
    /\ env = NoEnv
    /\ today = NoDay
    /\ sent_ids = << >>
    /\ articles = << >>
    /\ new_ids = << >>
    /\ feedIdx = 1
    /\ digest_content = None
    /\ success = "none"
    /\ saveIo = "none"
    /\ exit_code = -1
    /\ trace = << >>
    /\ served = << >>
    /\ fileAtStart = file
    /\ past = NoPast
    /\ llm = NoCall
    /\ dst \in {0, DST_HOUR}

RelevanceFetch == FetchFeedFrom(FeedResults(RelevanceCatalogue))

RelevanceNext ==
    \/ LoadHistory
    \/ RelevanceFetch
    \/ FilterReturn

SpecRelevance == RelevanceInit /\ [][RelevanceNext]_vars

\* ---------------------------------------------------------------- save_history alone
\* save_history(ids) called on lists of up to MaxSaveLen ids, one call after
\* another, against the same file
SaveLens == {0, 1, HISTORY_CAP - 1, HISTORY_CAP, HISTORY_CAP + 1, MaxSaveLen}

SaveArgs == { [i \in 1..n |-> OldId(o + i)] : n \in SaveLens, o \in {0, 3} }

SaveInit ==
    /\ file \in InitialFiles
    /\ pc = "save"
    /\ args = NoArgs
    /\ env = NoEnv
    /\ today = NoDay
    /\ sent_ids = << >>
    /\ articles = << >>
    /\ new_ids = << >>
    /\ feedIdx = 1
    /\ digest_content = None
    /\ success = "none"
    /\ saveIo = "none"
    /\ exit_code = -1
    /\ trace = << >>
    /\ served = << >>
    /\ fileAtStart = file
    /\ past = NoPast
    /\ llm = NoCall
    /\ dst = 0

\* one call save_history(ids); sent_ids holds the argument, fileAtStart the
\* file as the call found it
SaveCall ==
    /\ pc = "save"
    /\ \E ids \in SaveArgs, io \in SaveIo :
         /\ sent_ids' = ids
         /\ saveIo' = io
         /\ file' = save_history(file, ids, io)
    /\ fileAtStart' = file
    /\ UNCHANGED << past, llm, dst, pc, args, env, today, articles, new_ids, feedIdx,
                    digest_content, success, exit_code, trace, served >>

SaveNext == SaveCall

SpecSave == SaveInit /\ [][SaveNext]_vars

\* ---------------------------------------------------------------- the filter called twice
\* fetch_and_filter_articles() called, and called again with nothing saved in
\* between, the feeds serving to the second call what they served to the first
TwiceFiles == { FileMissing, FileCorrupt, FileList(OldLedger(2)) }

TwiceCatalogue == << E_native, E_old, E_stale, E_link, E_baddate >>

TwiceInit ==
    /\ file \in TwiceFiles
    /\ pc = "load"
    /\ args = NoArgs
    /\ env = NoEnv
    /\ today = NoDay
    /\ sent_ids = << >>
    /\ articles = << >>
    /\ new_ids = << >>
    /\ feedIdx = 1
    /\ digest_content = None
    /\ success = "none"
    /\ saveIo = "none"
    /\ exit_code = -1
    /\ trace = << >>
    /\ served = << >>
    /\ fileAtStart = file
    /\ past = NoPast
    /\ llm = NoCall
    /\ dst = 0

\* one feed of the first call, or the same feed again in the second call
TwiceFetch ==
    FetchFeedFrom(IF past.runs = 0 THEN FeedResults(TwiceCatalogue)
                  ELSE { past.served[feedIdx] })

\* the first call returns (articles, new_ids_found, sent_ids) and the second
\* call is entered
CallAgain ==
    /\ pc = "feeds"
    /\ feedIdx > Len(RSS_FEEDS)
    /\ past.runs = 0
    /\ past' = [past EXCEPT !.runs = 1, !.articles = articles, !.new_ids = new_ids,
                            !.sent_ids = sent_ids, !.served = served]
    /\ pc' = "load"
    /\ served' = << >>
    /\ UNCHANGED << llm, dst, file, args, env, today, sent_ids, articles, new_ids,
                    feedIdx, digest_content, success, saveIo, exit_code, trace,
                    fileAtStart >>

TwiceNext ==
    \/ LoadHistory
    \/ TwiceFetch
    \/ CallAgain
    \/ FilterReturn

SpecTwice == TwiceInit /\ [][TwiceNext]_vars

\* ---------------------------------------------------------------- load_history in the filter
\* fetch_and_filter_articles() on history files as save_history leaves them
\* (written, untouched, or cut short by a failing write), on a missing file
\* and on an unreadable one
LoadFiles ==
    { FileMissing, FileUnreadable }
    \cup { save_history(f, ids, io) :
              f \in { FileMissing, FileList(OldLedger(2)) },
              ids \in { << >>, OldLedger(3), OldLedger(HISTORY_CAP + 1) },
              io \in SaveIo }

LoadCatalogue == << E_old, E_old_changed, E_native >>

LoadInit ==
    /\ file \in LoadFiles
    /\ pc = "load"
    /\ args = NoArgs
    /\ env = NoEnv
    /\ today = NoDay
    /\ sent_ids = << >>
    /\ articles = << >>
    /\ new_ids = << >>
    /\ feedIdx = 1
    /\ digest_content = None
    /\ success = "none"
    /\ saveIo = "none"
    /\ exit_code = -1
    /\ trace = << >>
    /\ served = << >>
    /\ fileAtStart = file
    /\ past = NoPast
    /\ llm = NoCall
    /\ dst = 0

\* sent_ids = load_history(), with the error handling of load_history spelt
\* out: an error the handler does not catch leaves the filter
LoadCall ==
    /\ pc = "load"
    /\ trace' = Append(trace, "load_history")
    /\ IF file.kind # "missing" /\ LoadError(file) # "none" /\ ~Caught(LoadError(file))
       THEN /\ pc' = "raised"
            /\ UNCHANGED sent_ids
       ELSE /\ pc' = "feeds"
            /\ sent_ids' = load_history(file)
    /\ articles' = << >>
    /\ new_ids' = << >>
    /\ feedIdx' = 1
    /\ UNCHANGED << past, llm, dst, file, args, env, today, digest_content, success,
                    saveIo, exit_code, served, fileAtStart >>

LoadFetch == FetchFeedFrom(FeedResults(LoadCatalogue))

LoadNext ==
    \/ LoadCall
    \/ LoadFetch
    \/ FilterReturn

SpecLoad == LoadInit /\ [][LoadNext]_vars

\* ---------------------------------------------------------------- runs one after another
\* scheduled runs of main() against the same history file, the feeds serving
\* the same entries to every run (a fetch may fail in one run and not in
\* another).  past.served is what the feeds hold; past.delivered is the set of
\* ids delivered by a run that went on to commit them.  The ids of the ledger
\* the first run finds were delivered and committed by runs before it.
RunsFiles == { FileList(OldLedger(2)), FileList(OldLedger(HISTORY_CAP)) }

RunsCatalogue == << E_old, E_native >>

ListToSet(lst) == { lst[i] : i \in 1..Len(lst) }

RunsInit ==
    /\ file \in RunsFiles
    /\ pc = "weekday"
    /\ args = [dry_run |-> FALSE, force |-> FALSE]
    /\ env = [var \in REQUIRED_VARS |-> <<"v">>]
    /\ today = 4
    /\ sent_ids = << >>
    /\ articles = << >>
    /\ new_ids = << >>
    /\ feedIdx = 1
    /\ digest_content = None
    /\ success = "none"
    /\ saveIo = "none"
    /\ exit_code = -1
    /\ trace = << >>
    /\ served = << >>
    /\ fileAtStart = file
    /\ \E contents \in [1..Len(RSS_FEEDS) ->
                           { r \in FeedResults(RunsCatalogue) : ~r.raises }] :
          past = [NoPast EXCEPT !.served = contents,
                                !.delivered = ListToSet(load_history(file))]
    /\ llm = NoCall
    /\ dst = 0

\* the feed serves what it holds, or its fetch fails
RunsFetch ==
    FetchFeedFrom({ [raises |-> TRUE, entries |-> << >>], past.served[feedIdx] })

\* the process has exited; the scheduler starts the next run with the same
\* command line and environment
NextRun ==
    /\ pc = "exited"
    /\ past.runs + 1 < MaxRuns
    /\ past' = [past EXCEPT !.runs = @ + 1,
                            !.delivered =
                                IF success = "true" /\ saveIo = "ok"
                                THEN @ \cup ListToSet(new_ids) ELSE @]
    /\ pc' = "weekday"
    /\ sent_ids' = << >>
    /\ articles' = << >>
    /\ new_ids' = << >>
    /\ feedIdx' = 1
    /\ digest_content' = None
    /\ success' = "none"
    /\ saveIo' = "none"
    /\ exit_code' = -1
    /\ trace' = << >>
    /\ served' = << >>
    /\ fileAtStart' = file
    /\ UNCHANGED << llm, dst, file, args, env, today >>

RunsNext ==
    \/ WeekdayCheck
    \/ EnvCheck
    \/ LoadHistory
    \/ RunsFetch
    \/ CheckArticles
    \/ GenerateDigest
    \/ SendEmail
    \/ SaveHistory
    \/ NextRun

SpecRuns == RunsInit /\ [][RunsNext]_vars

\* ---------------------------------------------------------------- the summarization call
\* LLMProcessor.generate_digest_from_articles(articles, prompt_template,
\* date_range), called on its own
MAX_RETRIES == 3
RETRY_DELAY_SECONDS == 3

WHITESPACE == {" ", "\n", "\t"}

\* str.strip()
RECURSIVE Strip(_)
Strip(s) ==
    IF s = << >> THEN s
    ELSE IF Head(s) \in WHITESPACE THEN Strip(Tail(s))
    ELSE IF s[Len(s)] \in WHITESPACE THEN Strip(SubSeq(s, 1, Len(s) - 1))
    ELSE s

D_PADDED == <<" ">> \o D_OK \o <<"\n">>

\* response.choices[0].message.content of a completed request
LlmContents == {None, Empty, D_OK, D_PADDED}

\* what one client.chat.completions.create(...) does: it completes, or raises
\* a RateLimitError, an APIConnectionError, another APIError, or anything else
LlmFailures == {"RateLimitError", "APIConnectionError", "APIError", "Exception"}

LlmOutcomes ==
    { [kind |-> "ok", content |-> c] : c \in LlmContents }
    \cup { [kind |-> k, content |-> None] : k \in LlmFailures }

\* the lengths of the article lists the call is given
LlmArticleCounts == {0, 1, 2, 3}

\* every failure of a request retried while attempts are left
AfterFailure_RetriesAll(kind, attempt) ==
    IF attempt < MAX_RETRIES THEN "retry" ELSE "give_up"

\* the three except clauses, lines 106-125
AfterFailure(kind, attempt) ==
    IF kind \in {"APIConnectionError", "RateLimitError"} /\ attempt < MAX_RETRIES
    THEN "retry"
    ELSE "give_up"

LlmInit ==
    /\ file = FileMissing
    /\ pc = "idle"
    /\ args = NoArgs
    /\ env = NoEnv
    /\ today = NoDay
    /\ sent_ids = << >>
    /\ articles = << >>
    /\ new_ids = << >>
    /\ feedIdx = 1
    /\ digest_content = None
    /\ success = "none"
    /\ saveIo = "none"
    /\ exit_code = -1
    /\ trace = << >>
    /\ served = << >>
    /\ fileAtStart = file
    /\ past = NoPast
    /\ llm = NoCall
    /\ dst = 0

\* the call is made; `if not articles: return None`
LlmCall ==
    /\ llm.state = "idle"
    /\ \E n \in LlmArticleCounts :
         llm' = IF n = 0
                THEN [llm EXCEPT !.state = "returned", !.n_articles = n, !.result = None]
                ELSE [llm EXCEPT !.state = "requesting", !.n_articles = n, !.attempt = 1]
    /\ UNCHANGED << file, pc, args, env, today, sent_ids, articles, new_ids, feedIdx,
                    digest_content, success, saveIo, exit_code, trace, served,
                    fileAtStart, past, dst >>

\* one pass of `for attempt in range(1, MAX_RETRIES + 1)`: the request and
\* the except clause it ends in
LlmAttempt ==
    /\ llm.state = "requesting"
    /\ llm.attempt <= MAX_RETRIES
    /\ \E outcome \in LlmOutcomes :
         LET sent == [llm EXCEPT !.requests = @ + 1, !.log = Append(@, outcome.kind)]
         IN  llm' =
               IF outcome.kind = "ok" /\ outcome.content # None
               THEN [sent EXCEPT !.state = "returned", !.result = Strip(outcome.content)]
               ELSE IF outcome.kind = "ok"
               THEN \* None has no strip(): AttributeError, caught at line 123
                    [sent EXCEPT !.state = "returned", !.result = None,
                                 !.log = Append(llm.log, "AttributeError")]
               ELSE IF AfterFailure(outcome.kind, llm.attempt) = "retry"
               THEN [sent EXCEPT !.state = "sleeping"]
               ELSE [sent EXCEPT !.state = "returned", !.result = None]
    /\ UNCHANGED << file, pc, args, env, today, sent_ids, articles, new_ids, feedIdx,
                    digest_content, success, saveIo, exit_code, trace, served,
                    fileAtStart, past, dst >>

\* time.sleep(RETRY_DELAY_SECONDS), then the next pass of the loop
LlmSleep ==
    /\ llm.state = "sleeping"
    /\ llm' = [llm EXCEPT !.state = "requesting", !.attempt = @ + 1,
                          !.slept = @ + RETRY_DELAY_SECONDS]
    /\ UNCHANGED << file, pc, args, env, today, sent_ids, articles, new_ids, feedIdx,
                    digest_content, success, saveIo, exit_code, trace, served,
                    fileAtStart, past, dst >>

LlmNext ==
    \/ LlmCall
    \/ LlmAttempt
    \/ LlmSleep

SpecLLM == LlmInit /\ [][LlmNext]_vars

\* ---------------------------------------------------------------- properties
\* lst has exactly the last min(Len(all), cap) elements of all, in order
IsTail(lst, all, cap) ==
    LET n == Len(all)
        k == IF n < cap THEN n ELSE cap
    IN  /\ Len(lst) = k
        /\ \A i \in 1..k : lst[i] = all[n - k + i]

Called(name) == InList(name, trace)

\* C1: commit gating on delivery.  In a run without --dry-run in which
\* send_email reported failure, the history file after the run equals the
\* file before the run: no id of the run's candidates is added.
C1_CommitGating ==
    (pc = "exited" /\ ~args.dry_run /\ success = "false") => file = fileAtStart

\* C2: dry-run non-mutation.  In a run started with --dry-run, whatever the
\* feeds serve and whatever generate_digest yields, save_history is never
\* called, send_email is never called, and the history file stays as the run
\* found it.
C2_DryRunNonMutation ==
    args.dry_run =>
        /\ ~Called("save_history")
        /\ ~Called("send_email")
        /\ saveIo = "none"
        /\ success = "none"
        /\ file = fileAtStart

\* C2 witness: a dry run that got a digest and printed its preview
C2_Witness ==
    /\ args.dry_run
    /\ pc = "exited"
    /\ exit_code = 0
    /\ articles # << >>
    /\ Truthy(digest_content)

\* C3: summarization failure ends the run.  Once generate_digest has been
\* called and has yielded no digest (it raised, or returned None or ''), the
\* run has exited with a non-zero code, send_email and save_history were
\* not called, and the history file is as the run found it.
C3_SummarizationFailure ==
    (Called("generate_digest") /\ ~Truthy(digest_content)) =>
        /\ pc = "exited"
        /\ exit_code # 0
        /\ ~Called("send_email")
        /\ ~Called("save_history")
        /\ file = fileAtStart

\* C3 witness: a run without --dry-run whose generate_digest gave nothing
C3_Witness ==
    /\ Called("generate_digest")
    /\ digest_content = None
    /\ ~args.dry_run
    /\ pc = "exited"
    /\ fileAtStart.kind = "list"

\* C4: commit on success.  In a run without --dry-run in which the digest
\* was generated, send_email reported success and the write of the history
\* file went through, the file after the run holds exactly the last 1000
\* elements of (the ledger loaded at the start of the run, then the run's
\* new ids in acceptance order); when these are at most 1000, every id
\* accepted in the run is in the file.
C4_CommitOnSuccess ==
    (pc = "exited" /\ ~args.dry_run /\ success = "true" /\ saveIo = "ok") =>
        /\ file.kind = "list"
        /\ IsTail(file.ids, load_history(fileAtStart) \o new_ids, 1000)
        /\ Len(load_history(fileAtStart)) + Len(new_ids) <= 1000 =>
               \A i \in 1..Len(new_ids) : InList(new_ids[i], file.ids)

\* C4 witness: a committed run whose old ledger and new ids exceed the cap
C4_Witness ==
    /\ pc = "exited"
    /\ ~args.dry_run
    /\ success = "true"
    /\ saveIo = "ok"
    /\ Len(new_ids) >= 2
    /\ Len(load_history(fileAtStart)) + Len(new_ids) > 1000

\* C5: no re-delivery.  In every run, no id of the history ledger loaded at
\* the start of the run appears in the run's candidate list or in its
\* new-ids list, whatever title, summary and date the entry carrying the id
\* has; the loaded ledger is the list the history file held.
C5_NoRedelivery ==
    /\ \A i \in 1..Len(sent_ids) :
          /\ \A j \in 1..Len(articles) : articles[j].id # sent_ids[i]
          /\ ~InList(sent_ids[i], new_ids)
    /\ (pc # "load" /\ fileAtStart.kind = "list") => sent_ids = fileAtStart.ids

\* an entry of the feeds fetched so far
Served(entry) ==
    \E f \in 1..Len(served) : InList(entry, served[f].entries)

\* C5 witness: the filter returned candidates, having been served two
\* entries that carry ids of the ledger, one of them with other content
C5_Witness ==
    /\ pc = "returned"
    /\ fileAtStart.kind = "list"
    /\ Served(E_old)
    /\ Served(E_old_changed)
    /\ articles # << >>

\* C6: history cap.  A save_history(ids) whose write goes through leaves in
\* the file exactly the last min(len(ids), 1000) elements of ids in their
\* order (for 1500 ids, the last 1000); after any sequence of saves the
\* file never lists more than 1000 ids.
C6_HistoryCap ==
    /\ file.kind = "list" => Len(file.ids) <= 1000
    /\ saveIo = "ok" => (file.kind = "list" /\ IsTail(file.ids, sent_ids, 1000))

\* C6 witness: 1500 ids were saved and the file holds the 501st to the 1500th
C6_Witness ==
    /\ saveIo = "ok"
    /\ Len(sent_ids) = 1500
    /\ file.kind = "list"
    /\ Len(file.ids) = 1000
    /\ file.ids[1] = sent_ids[501]
    /\ file.ids[1000] = sent_ids[1500]

\* the run ended at the weekday guard
WeekendSkip == pc = "exited" /\ ~args.force /\ today >= 5

\* the process runs with a required configuration value unset or empty
ConfigAbsent ==
    \E var \in {"GEMINI_API_KEY", "EMAIL_SENDER", "EMAIL_PASSWORD", "EMAIL_RECIPIENT"} :
        env[var] = None \/ env[var] = Empty

\* the run ended at the configuration check
MissingConfig == pc = "exited" /\ ~WeekendSkip /\ ConfigAbsent

\* the run fetched the feeds and found nothing new
ZeroArticles ==
    /\ pc = "exited"
    /\ Called("fetch")
    /\ articles = << >>

\* the run delivered the digest, or previewed it under --dry-run
RunSucceeded ==
    /\ pc = "exited"
    /\ Truthy(digest_content)
    /\ ~Contains(<<"E","r","r","o","r">>, digest_content)
    /\ (args.dry_run \/ success = "true")

\* C7: exit codes.  A run exits with code 0 exactly when it succeeded or
\* was a clean no-op (weekend skip, zero new articles), and with a non-zero
\* code on every fatal error: missing configuration, failed summarization,
\* failed delivery.
C7_ExitCodes ==
    pc = "exited" =>
        /\ exit_code = 0 <=> (RunSucceeded \/ WeekendSkip \/ ZeroArticles)
        /\ MissingConfig => exit_code # 0
        /\ (Called("generate_digest") /\ ~Truthy(digest_content)) => exit_code # 0
        /\ success = "false" => exit_code # 0

\* C8: weekday guard ordering.  Without --force on a Saturday or Sunday the
\* run goes from the guard straight to a clean exit (code 0): it reads no
\* history, fetches no feed, calls neither generate_digest nor send_email
\* nor save_history, and leaves the history file alone.  With --force the
\* guard lets the run through on any day.
C8_WeekdayGuard ==
    /\ [](( pc # "idle" /\ ~args.force /\ today >= 5) =>
            /\ pc \in {"weekday", "exited"}
            /\ pc = "exited" => exit_code = 0
            /\ trace = << >>
            /\ file = fileAtStart)
    /\ [][(pc = "weekday" /\ args.force) => (pc' = "env" /\ exit_code' = -1)]_vars

\* C8 witness: a Saturday run without --force has exited
C8_Witness ==
    /\ pc = "exited"
    /\ ~args.force
    /\ today = 5
    /\ exit_code = 0
    /\ ~ConfigAbsent

\* C9, as stated: whenever a required configuration value is absent, the run
\* exits with a non-zero code without fetching, reading history, calling
\* generate_digest or send_email.
C9_MissingConfigAlwaysFatal ==
    (pc = "exited" /\ ConfigAbsent) =>
        /\ exit_code # 0
        /\ trace = << >>

\* C9, amended: whenever a required configuration value is absent (unset or
\* empty) and the weekday guard has not ended the run first, the run exits
\* at once with code 1: no feed fetch, no history access, no generate_digest
\* or send_email call happens in it.
C9_MissingConfigFailsFast ==
    (pc \notin {"idle", "weekday"} /\ ~WeekendSkip /\ ConfigAbsent) =>
        /\ pc \in {"env", "exited"}
        /\ pc = "exited" => exit_code = 1
        /\ trace = << >>
        /\ file = fileAtStart

\* C9 witness: a run let through by the guard ended for want of the recipient
C9_Witness ==
    /\ pc = "exited"
    /\ exit_code = 1
    /\ ~WeekendSkip
    /\ env["EMAIL_RECIPIENT"] = None
    /\ \A var \in {"GEMINI_API_KEY", "EMAIL_SENDER", "EMAIL_PASSWORD"} : env[var] = <<"v">>
    /\ trace = << >>

\* C10: identity resolution.  An entry with neither a native id nor a link
\* nor a title (its id resolves to None) is skipped: it is never in the
\* candidate list, adds nothing to the new-ids list and, after a commit,
\* nothing to the ledger.
C10_IdentityResolution ==
    /\ \A j \in 1..Len(articles) : articles[j].id # None
    /\ ~InList(None, new_ids)
    /\ file.kind = "list" => ~InList(None, file.ids)
\* ---------------------------------------------------------------- entries met by the loop
\* the entry raises in the loop body: it is not a duplicate and its date is
\* one time.mktime rejects
RaisesAt(result, k) ==
    /\ ~InList(unique_id_of(result.entries[k]), sent_ids)
    /\ result.entries[k].published_parsed.kind = "out_of_range"

\* the loop over the feed's entries got as far as entry k
Reached(result, k) ==
    /\ ~result.raises
    /\ k \in 1..Len(result.entries)
    /\ \A j \in 1..(k - 1) : ~RaisesAt(result, j)

\* the entries the loop met in the feeds fetched so far
Met ==
    UNION { { served[f].entries[k] :
                k \in { j \in 1..Len(served[f].entries) : Reached(served[f], j) } } :
            f \in 1..Len(served) }

Accepted(entry) == \E j \in 1..Len(articles) : articles[j].id = unique_id_of(entry)

\* the entry passes the duplicate check and the two keyword checks
PassesOtherChecks(entry) ==
    /\ ~InList(unique_id_of(entry), sent_ids)
    /\ ~AnyIn(EXCLUDE_KEYWORDS, content_text_of(entry))
    /\ AnyIn(BD700_KEYWORDS, content_text_of(entry))

\* C11: cutoff boundary.  Among the entries the loop met that pass the
\* duplicate and keyword checks: one whose parsed publication time is before
\* the cutoff is not accepted, one dated exactly at the cutoff or later is
\* accepted, and one without a parsed publication time (the attribute is
\* absent or None) is accepted.
C11_CutoffBoundary ==
    \A entry \in Met :
        PassesOtherChecks(entry) =>
            LET pp == entry.published_parsed
            IN  /\ (pp.kind = "time" /\ pp.t < CUTOFF_DATE) => ~Accepted(entry)
                /\ (pp.kind = "time" /\ pp.t >= CUTOFF_DATE) => Accepted(entry)
                /\ pp.kind \in {"absent", "none"} => Accepted(entry)

\* C12: exclusion precedence.  An entry the loop met whose lowercased
\* title + " " + summary holds an exclusion keyword is not accepted, whatever
\* inclusion keywords it holds; every accepted article holds no exclusion
\* keyword and at least one inclusion keyword.
C12_ExclusionPrecedence ==
    /\ \A entry \in Met :
          AnyIn(EXCLUDE_KEYWORDS, content_text_of(entry)) => ~Accepted(entry)
    /\ \A j \in 1..Len(articles) :
          LET text == Lower(articles[j].title \o <<" ">> \o articles[j].summary)
          IN  /\ ~AnyIn(EXCLUDE_KEYWORDS, text)
              /\ AnyIn(BD700_KEYWORDS, text)

C12_Witness ==
    /\ pc = "returned"
    /\ E_excluded \in Met
    /\ AnyIn(BD700_KEYWORDS, content_text_of(E_excluded))
    /\ AnyIn(EXCLUDE_KEYWORDS, content_text_of(E_excluded))
    /\ ~Accepted(E_excluded)
    /\ Accepted(E_native)

\* the feed's fetch or its loop raised
FeedRaised(result) ==
    \/ result.raises
    \/ \E k \in 1..Len(result.entries) : Reached(result, k) /\ RaisesAt(result, k)

\* the entries of the feed the loop met before it ended, in order
MetOf(result) ==
    IF result.raises THEN << >>
    ELSE SubSeq(result.entries, 1,
                Cardinality({ k \in 1..Len(result.entries) : Reached(result, k) }))

\* the step is one iteration of `for feed_url in RSS_FEEDS`
IsFetchStep == pc = "feeds" /\ feedIdx <= Len(RSS_FEEDS) /\ feedIdx' = feedIdx + 1

\* C13 as stated: per-feed error containment.  A feed whose fetch or whose
\* processing raises adds nothing to the candidate list and nothing to the
\* new-ids list.
C13_FailedFeedAddsNothing ==
    [][ (IsFetchStep /\ FeedRaised(served'[feedIdx]))
            => (articles' = articles /\ new_ids' = new_ids) ]_vars

\* C13, amended: a feed whose fetch raises adds nothing; a feed whose
\* processing raises at an entry adds the entries accepted before that entry
\* and nothing of the entries after it; in both cases the run goes on to the
\* next feed, and the filter returns only after every configured feed was
\* fetched.
C13_ErrorContainment ==
    /\ [](pc \notin {"load", "feeds"} => Len(served) = Len(RSS_FEEDS))
    /\ [][ IsFetchStep =>
              LET result == served'[feedIdx]
                  met == MetOf(result)
                  kept == SelectSeq(met, LAMBDA e : EntryOutcome(e, sent_ids) = "accept")
              IN  /\ pc' = "feeds"
                  /\ Len(served') = feedIdx
                  /\ result.raises => (articles' = articles /\ new_ids' = new_ids)
                  /\ new_ids' = new_ids \o [i \in 1..Len(kept) |-> unique_id_of(kept[i])]
                  /\ Len(articles') = Len(new_ids')
                  /\ \A k \in 1..Len(result.entries) :
                        ~Reached(result, k) =>
                            \A j \in (Len(articles) + 1)..Len(articles') :
                                articles'[j].id # unique_id_of(result.entries[k]) ]_vars

C13_Witness ==
    /\ pc = "returned"
    /\ served[1].entries = << E_native, E_baddate >>
    /\ FeedRaised(served[1])
    /\ served[2].entries = << E_baddate, E_link >>
    /\ Len(articles) = 1
    /\ articles[1].id = unique_id_of(E_native)

\* C14 as stated: every call of generate_digest_from_articles makes between
\* 1 and 3 requests.
C14_OneToThreeRequests ==
    llm.state = "returned" => llm.requests \in 1..3

\* C14, amended: bounded summarization retry.  A call with no articles
\* returns failure without a request.  A call with articles makes between 1
\* and 3 requests: each request but the last failed with a rate-limit or
\* connection error and was followed by one sleep of 3 seconds; a request
\* that completes ends the call with its stripped text, a request that fails
\* in any other way ends the call with failure at once, and a third
\* transient failure ends the call with failure.
C14_BoundedRetry ==
    LET n == Len(llm.log)
        transient == {"RateLimitError", "APIConnectionError"}
    IN  /\ llm.requests = n
        /\ n <= 3
        /\ \A i \in 1..(n - 1) : llm.log[i] \in transient
        /\ llm.state = "returned" =>
              IF llm.n_articles = 0
              THEN n = 0 /\ llm.result = None /\ llm.slept = 0
              ELSE /\ n \in 1..3
                   /\ llm.slept = 3 * (n - 1)
                   /\ llm.log[n] = "ok" => llm.result \in {Empty, D_OK}
                   /\ llm.log[n] # "ok" => llm.result = None
                   /\ llm.log[n] \in transient => n = 3
        /\ llm.state \in {"requesting", "sleeping"} =>
              /\ \A i \in 1..n : llm.log[i] \in transient
              /\ n < 3

C14_Witness ==
    /\ llm.state = "returned"
    /\ llm.log = << "RateLimitError", "APIConnectionError", "ok" >>
    /\ llm.result = D_OK
    /\ llm.slept = 6

\* C15: idempotence of dedup.  When the filter is called a second time on
\* the same history file and the same feed contents, nothing having been
\* saved in between, the second call returns the candidates of the first
\* (same ids, same order), the same new-ids list and the same history, and
\* the history file is what it was before the first call.
C15_Idempotence ==
    (past.runs = 1 /\ pc = "returned") =>
        /\ served = past.served
        /\ Len(articles) = Len(past.articles)
        /\ \A j \in 1..Len(articles) : articles[j].id = past.articles[j].id
        /\ new_ids = past.new_ids
        /\ sent_ids = past.sent_ids
        /\ file = fileAtStart

C15_Witness ==
    /\ past.runs = 1
    /\ pc = "returned"
    /\ Len(articles) = 2
    /\ sent_ids # << >>
    /\ \E f \in 1..Len(served) : \E k \in 1..Len(served[f].entries) :
          InList(unique_id_of(served[f].entries[k]), sent_ids)

\* C16: history load never fails the caller.  load_history never raises; it
\* returns the ids of the file when the file holds a list, and the empty
\* list when the file is missing, cut short by a failed write, or
\* unreadable; the filter then goes through every feed with no history.
C16_LoadNeverFails ==
    /\ pc # "raised"
    /\ pc # "load" =>
          /\ fileAtStart.kind = "list" => sent_ids = fileAtStart.ids
          /\ fileAtStart.kind \in {"missing", "corrupt", "unreadable"} => sent_ids = << >>
    /\ pc = "returned" => Len(served) = Len(RSS_FEEDS)

C16_Witness ==
    /\ pc = "returned"
    /\ fileAtStart = save_history(FileList(OldLedger(2)), OldLedger(3), "write_fails")
    /\ sent_ids = << >>
    /\ \E j \in 1..Len(articles) : articles[j].id = OldId(1)

\* what the feeds fetched so far served, as articles, feed after feed and
\* within a feed entry after entry
ServedInOrder ==
    LET F[f \in 0..Len(served)] ==
            IF f = 0 THEN << >>
            ELSE F[f - 1] \o [k \in 1..Len(served[f].entries) |->
                                 Article(served[f].entries[k], RSS_FEEDS[f])]
    IN  F[Len(served)]

\* a can be had from b by leaving elements out
RECURSIVE IsSubseq(_, _)
IsSubseq(a, b) ==
    IF a = << >> THEN TRUE
    ELSE IF b = << >> THEN FALSE
    ELSE IF Head(a) = Head(b) THEN IsSubseq(Tail(a), Tail(b))
    ELSE IsSubseq(a, Tail(b))

\* C17: output order and new-ids delta.  The candidate list holds accepted
\* entries in the order of the configured feeds and, within a feed, in the
\* order of its entries, whatever their is_primary flag; the new-ids list is
\* the list of the candidates' ids, element for element.
C17_OrderAndDelta ==
    /\ IsSubseq(articles, ServedInOrder)
    /\ Len(new_ids) = Len(articles)
    /\ \A j \in 1..Len(articles) : new_ids[j] = articles[j].id

C17_Witness ==
    /\ pc = "returned"
    /\ Len(articles) = 3
    /\ articles[1].is_primary
    /\ ~articles[2].is_primary
    /\ articles[3].is_primary

\* the calls of a run that goes all the way, in order
FullRun ==
    << "load_history" >> \o [f \in 1..Len(RSS_FEEDS) |-> "fetch"]
        \o << "generate_digest", "send_email", "save_history" >>

\* C18: orchestrator step order.  The calls of a run are a prefix of: one
\* history read, one fetch per configured feed, one summarization, one
\* delivery, one history save.  No call is made before the weekday and
\* configuration guards have passed; summarization is called only with
\* candidates, delivery only with candidates and an accepted digest, the save
\* only after the delivery call; a run whose feeds gave no candidate exits
\* with code 0 having summarized, delivered and written nothing.
C18_StepOrder ==
    /\ Len(trace) <= Len(FullRun)
    /\ \A i \in 1..Len(trace) : trace[i] = FullRun[i]
    /\ trace # << >> =>
          /\ args.force \/ today \in 0..4
          /\ \A var \in DOMAIN env : env[var] \notin {None, Absent, Empty}
    /\ Called("generate_digest") => articles # << >>
    /\ Called("send_email") =>
          /\ articles # << >>
          /\ digest_content \notin {None, Empty}
          /\ ~Contains(<<"E","r","r","o","r">>, digest_content)
          /\ ~args.dry_run
    /\ (pc = "exited" /\ Len(served) = Len(RSS_FEEDS) /\ articles = << >>) =>
          /\ exit_code = 0
          /\ Len(trace) = 1 + Len(RSS_FEEDS)
          /\ file = fileAtStart

C18_Witness ==
    /\ pc = "exited"
    /\ trace = FullRun
    /\ articles # << >>
    /\ file # fileAtStart

NoDuplicates(lst) == \A i, j \in 1..Len(lst) : i # j => lst[i] # lst[j]

\* C19: within-run uniqueness.  In a run no id is twice in the candidate
\* list or twice in the new-ids list, and the ledger written by a run that
\* loaded a ledger without repeated ids has no repeated id.
C19_WithinRunUniqueness ==
    /\ NoDuplicates(new_ids)
    /\ NoDuplicates([j \in 1..Len(articles) |-> articles[j].id])
    /\ (pc = "exited" /\ saveIo = "ok" /\ NoDuplicates(load_history(fileAtStart)))
          => NoDuplicates(file.ids)

\* C20 as stated: at-most-once delivery across runs.  No id delivered by a
\* run that read a well-formed ledger was delivered and committed before.
C20_AtMostOnce ==
    (success = "true" /\ fileAtStart.kind = "list") =>
        \A j \in 1..Len(new_ids) : new_ids[j] \notin past.delivered

\* C20, amended: an id that was delivered and committed is not a candidate of
\* a later run as long as the ledger that run reads still holds it; and a
\* commit that goes through writes the ledger it read followed by the new
\* ids, less the oldest ones, which it drops only when the file it writes is
\* full, that is, only by eviction at the cap.
C20_NoRedeliveryWhileRecorded ==
    /\ [](\A j \in 1..Len(new_ids) :
            new_ids[j] \in past.delivered
                => ~InList(new_ids[j], load_history(fileAtStart)))
    /\ [][ (pc = "save" /\ saveIo' = "ok") =>
              LET dropped == Len(sent_ids) + Len(new_ids) - Len(file'.ids)
              IN  /\ file'.kind = "list"
                  /\ dropped >= 0
                  /\ dropped > 0 => Len(file'.ids) = 1000
                  /\ \A i \in (dropped + 1)..Len(sent_ids) :
                        file'.ids[i - dropped] = sent_ids[i]
                  /\ \A i \in 1..Len(new_ids) :
                        Len(sent_ids) + i > dropped
                            => file'.ids[Len(sent_ids) + i - dropped] = new_ids[i] ]_vars

C20_Witness ==
    /\ past.runs = 1
    /\ pc = "exited"
    /\ <<"A">> \in past.delivered
    /\ \E f \in 1..Len(served) : InList(E_native, served[f].entries)
    /\ articles = << >>
    /\ InList(<<"A">>, sent_ids)

\* C21: digest acceptance.  Once generate_digest has returned a non-empty
\* text, whatever the text says, the run is not failed at that step: it goes
\* on to delivery or to the dry-run preview, and if it has exited it has
\* exited with code 0 after one of the two.
C21_DigestAcceptance ==
    (Called("generate_digest") /\ digest_content \notin {None, Empty}) =>
        /\ pc \in {"deliver", "save", "exited"}
        /\ pc = "exited" =>
              /\ exit_code = 0
              /\ args.dry_run \/ Called("send_email")

====
